---- MODULE Spec2Model ----
(***************************************************************************)
(* MCP adapter services of ss-bq-mcp: BigQuery (McpServer variant with     *)
(* stdio and HTTP, and the older Server variant on stdio), Google Ads      *)
(* (stdio) and Meta Ads (BaseMCPServer, stdio and HTTP).                   *)
(*                                                                         *)
(* One behaviour is one process: main() constructs the server from the     *)
(* environment, run() starts one transport, then requests arrive, suspend  *)
(* on a vendor SDK promise and are answered when the promise settles.      *)
(* Strings built by template literals are tuples of their parts.           *)
(***************************************************************************)
EXTENDS Integers, Sequences, FiniteSets, TLC

(* ---------------------------------------------------------------------- *)
(* Bounds                                                                  *)
(* ---------------------------------------------------------------------- *)

\* number of requests a client keeps outstanding at once
MaxReq == 2

\* number of pieces a query text sent by a client is put together from
MaxPieces == 2

\* number of datasets the vendor lists for the project
MaxData == 2

\* number of command line arguments a process is started with
MaxArgs == 2

(* ---------------------------------------------------------------------- *)
(* Characters and the String methods used by the credential checks         *)
(* ---------------------------------------------------------------------- *)

Lower ==
  <<"a","b","c","d","e","f","g","h","i","j","k","l","m",
    "n","o","p","q","r","s","t","u","v","w","x","y","z">>

Upper ==
  <<"A","B","C","D","E","F","G","H","I","J","K","L","M",
    "N","O","P","Q","R","S","T","U","V","W","X","Y","Z">>

\* the character class [A-Z] of the regular expression /([A-Z])/g
IsUpper(c) == \E i \in 1..Len(Upper) : Upper[i] = c

\* String.prototype.toUpperCase on one character
ToUpperChar(c) ==
  IF \E i \in 1..Len(Lower) : Lower[i] = c
  THEN Upper[CHOOSE i \in 1..Len(Lower) : Lower[i] = c]
  ELSE c

\* String.prototype.toUpperCase
ToUpperCase(s) == [i \in 1..Len(s) |-> ToUpperChar(s[i])]

\* String.prototype.toLowerCase on one character
ToLowerChar(c) ==
  IF \E i \in 1..Len(Upper) : Upper[i] = c
  THEN Lower[CHOOSE i \in 1..Len(Upper) : Upper[i] = c]
  ELSE c

\* String.prototype.toLowerCase
ToLowerCase(s) == [i \in 1..Len(s) |-> ToLowerChar(s[i])]

\* String.prototype.includes
Includes(s, sub) ==
  \E i \in 0..(Len(s) - Len(sub)) : SubSeq(s, i + 1, i + Len(sub)) = sub

\* the white space String.prototype.trim removes
WhiteSpace == {" ", "\t", "\n"}

\* String.prototype.trim
RECURSIVE TrimStart(_)
TrimStart(s) ==
  IF s # <<>> /\ Head(s) \in WhiteSpace THEN TrimStart(Tail(s)) ELSE s

RECURSIVE TrimEnd(_)
TrimEnd(s) ==
  IF s # <<>> /\ s[Len(s)] \in WhiteSpace THEN TrimEnd(SubSeq(s, 1, Len(s) - 1)) ELSE s

Trim(s) == TrimEnd(TrimStart(s))

\* field.replace(/([A-Z])/g, "_$1"): every capital gets an underscore before it
RECURSIVE ReplaceCapitals(_)
ReplaceCapitals(s) ==
  IF s = <<>> THEN <<>>
  ELSE (IF IsUpper(Head(s)) THEN <<"_", Head(s)>> ELSE <<Head(s)>>)
       \o ReplaceCapitals(Tail(s))

\* the characters of the identifiers and environment variable names the
\* sources spell out
Spelling ==
     "customerId" :> <<"c","u","s","t","o","m","e","r","I","d">> @@
     "developerToken" :> <<"d","e","v","e","l","o","p","e","r","T","o","k","e","n">> @@
     "clientId" :> <<"c","l","i","e","n","t","I","d">> @@
     "clientSecret" :> <<"c","l","i","e","n","t","S","e","c","r","e","t">> @@
     "refreshToken" :> <<"r","e","f","r","e","s","h","T","o","k","e","n">> @@
     "accessToken" :> <<"a","c","c","e","s","s","T","o","k","e","n">> @@
     "appId" :> <<"a","p","p","I","d">> @@
     "appSecret" :> <<"a","p","p","S","e","c","r","e","t">> @@
     "GOOGLE_ADS_" :> <<"G","O","O","G","L","E","_","A","D","S","_">> @@
     "META_ADS_" :> <<"M","E","T","A","_","A","D","S","_">> @@
     "GOOGLE_ADS_CUSTOMER_ID" :> <<"G","O","O","G","L","E","_","A","D","S","_","C","U","S","T","O","M","E","R","_","I","D">> @@
     "GOOGLE_ADS_DEVELOPER_TOKEN" :> <<"G","O","O","G","L","E","_","A","D","S","_","D","E","V","E","L","O","P","E","R","_","T","O","K","E","N">> @@
     "GOOGLE_ADS_CLIENT_ID" :> <<"G","O","O","G","L","E","_","A","D","S","_","C","L","I","E","N","T","_","I","D">> @@
     "GOOGLE_ADS_CLIENT_SECRET" :> <<"G","O","O","G","L","E","_","A","D","S","_","C","L","I","E","N","T","_","S","E","C","R","E","T">> @@
     "GOOGLE_ADS_REFRESH_TOKEN" :> <<"G","O","O","G","L","E","_","A","D","S","_","R","E","F","R","E","S","H","_","T","O","K","E","N">> @@
     "META_ADS_ACCESS_TOKEN" :> <<"M","E","T","A","_","A","D","S","_","A","C","C","E","S","S","_","T","O","K","E","N">> @@
     "META_ADS_APP_ID" :> <<"M","E","T","A","_","A","D","S","_","A","P","P","_","I","D">> @@
     "META_ADS_APP_SECRET" :> <<"M","E","T","A","_","A","D","S","_","A","P","P","_","S","E","C","R","E","T">> @@
     "META_ADS_ACCOUNT_ID" :> <<"M","E","T","A","_","A","D","S","_","A","C","C","O","U","N","T","_","I","D">>

\* the string with the given characters ("?" when the sources spell no such string)
StringOf(chars) ==
  IF \E n \in DOMAIN Spelling : Spelling[n] = chars
  THEN CHOOSE n \in DOMAIN Spelling : Spelling[n] = chars
  ELSE "?"

\* `${prefix}${field.replace(/([A-Z])/g, "_$1").toUpperCase()}`
EnvNameAs(prefix, field) ==
  StringOf(Spelling[prefix] \o ToUpperCase(Spelling[field]))

EnvName(prefix, field) ==
  StringOf(Spelling[prefix] \o ToUpperCase(ReplaceCapitals(Spelling[field])))

(* ---------------------------------------------------------------------- *)
(* Services, transports and the environment                                *)
(* ---------------------------------------------------------------------- *)

Services == {"bigquery", "bigquery_legacy", "google_ads", "meta_ads"}

\* the transports each service's run() can start
Transports(svc) ==
  CASE svc = "bigquery"        -> {"stdio", "http"}
    [] svc = "bigquery_legacy" -> {"stdio"}
    [] svc = "google_ads"      -> {"stdio"}
    [] svc = "meta_ads"        -> {"stdio", "http"}

\* a variable of process.env: not set, set to "", or set to a value; a path
\* variable set to a value names a file that can or cannot be read and parsed
Absent == "absent"

PlainVals == {"absent", "empty", "set"}

PathVals == {"absent", "unreadable", "keyfile"}

GoogleAdsEnvVars ==
  {"GOOGLE_ADS_CUSTOMER_ID", "GOOGLE_ADS_DEVELOPER_TOKEN", "GOOGLE_ADS_CLIENT_ID",
   "GOOGLE_ADS_CLIENT_SECRET", "GOOGLE_ADS_REFRESH_TOKEN"}

MetaAdsEnvVars ==
  {"META_ADS_ACCESS_TOKEN", "META_ADS_APP_ID", "META_ADS_APP_SECRET",
   "META_ADS_ACCOUNT_ID"}

BigQueryProjectVars == {"GOOGLE_CLOUD_PROJECT", "BQ_PROJECT_ID", "GCLOUD_PROJECT"}

\* argv2 is process.argv[2], read by the older BigQuery variant only
BigQueryEnvVars ==
  {"argv2", "GOOGLE_APPLICATION_CREDENTIALS", "BQ_LOCATION"} \cup BigQueryProjectVars

EnvVars(svc) ==
  CASE svc = "google_ads" -> GoogleAdsEnvVars
    [] svc = "meta_ads"   -> MetaAdsEnvVars
    [] OTHER              -> BigQueryEnvVars

ValsOf(svc, var) ==
  IF var \in {"argv2", "GOOGLE_APPLICATION_CREDENTIALS"} THEN PathVals
  ELSE IF var \in BigQueryProjectVars \cup {"META_ADS_ACCOUNT_ID"} THEN {"absent", "set"}
  ELSE PlainVals

\* every environment a process of the service can be started in
Envs(svc) ==
  {e \in [EnvVars(svc) -> PlainVals \cup PathVals] :
     \A v \in EnvVars(svc) : e[v] \in ValsOf(svc, v)}

(* ---------------------------------------------------------------------- *)
(* State                                                                   *)
(* ---------------------------------------------------------------------- *)

VARIABLES
  service,    \* which server program this process runs
  env,        \* process.env (and argv[2]) the process was started with
  argv,       \* process.argv.slice(2): the arguments, each a tuple of characters
  phase,      \* "init" (main not yet run), "serving" or "exited"
  transport,  \* the transport run() started ("none" before)
  config,     \* this.config / this.adsConfig
  client,     \* this.bigquery / this.googleAds / this.api: "null" or "ready"
  inits,      \* how often the initialization routine has set the client handle
  fatal,      \* what main() printed before process.exit(1)
  reqs,       \* the requests whose handlers are suspended on a vendor promise
  last,       \* the exchange completed in this turn of the event loop
  listed,     \* the tools of the first tools/list response (<<>> before it)
  scenario,   \* what the clients of this run send (see Scenarios)
  kept        \* an earlier tools/call exchange, remembered to compare with

vars ==
  <<service, env, argv, inits, phase, transport, config, client, fatal, reqs, last, listed,
    scenario, kept>>

(* ---------------------------------------------------------------------- *)
(* Construction                                                            *)
(* ---------------------------------------------------------------------- *)

Undefined == "undefined"

\* process.env[name]: undefined when the variable is not set
GetEnv(e, name) == IF e[name] = Absent THEN Undefined ELSE e[name]

\* !x for a configuration value
Not(x) == x \in {Undefined, "empty", "absent"}

NoFatal == [thrown |-> FALSE, text |-> "", vars |-> <<>>]

Thrown(text, names) == [thrown |-> TRUE, text |-> text, vars |-> names]

\* requiredFields.filter((field) => !this.config[field])
MissingFieldsAs(cfg, requiredFields) ==
  SelectSeq(requiredFields, LAMBDA field : cfg[field] = Undefined)

MissingFields(cfg, requiredFields) ==
  SelectSeq(requiredFields, LAMBDA field : Not(cfg[field]))

\* missingFields.map((field) => `- ${prefix}${...}`)
MissingNames(prefix, missingFields) ==
  [i \in 1..Len(missingFields) |-> EnvName(prefix, missingFields[i])]

GoogleAdsRequiredFields ==
  <<"customerId", "developerToken", "clientId", "clientSecret", "refreshToken">>

\* GoogleAdsMCPServer constructor: this.config = {...process.env...}
GoogleAdsConfig(e) ==
  [customerId     |-> GetEnv(e, "GOOGLE_ADS_CUSTOMER_ID"),
   developerToken |-> GetEnv(e, "GOOGLE_ADS_DEVELOPER_TOKEN"),
   clientId       |-> GetEnv(e, "GOOGLE_ADS_CLIENT_ID"),
   clientSecret   |-> GetEnv(e, "GOOGLE_ADS_CLIENT_SECRET"),
   refreshToken   |-> GetEnv(e, "GOOGLE_ADS_REFRESH_TOKEN")]

\* the outcome of a constructor: the fields it leaves, or what it threw
Built(cfg, cl)   == [ok |-> TRUE, config |-> cfg, client |-> cl, fatal |-> NoFatal]

Failed(cfg, err) == [ok |-> FALSE, config |-> cfg, client |-> "null", fatal |-> err]

initializeGoogleAds(cfg) ==
  LET missingFields == MissingFields(cfg, GoogleAdsRequiredFields) IN
  IF Len(missingFields) > 0
  THEN Failed(cfg, Thrown("Missing required Google Ads configuration",
                          MissingNames("GOOGLE_ADS_", missingFields)))
  ELSE Built(cfg, "ready")

MetaAdsRequiredFields == <<"accessToken", "appId", "appSecret">>

\* private adsConfig: MetaAdsConfig = {}
EmptyAdsConfig ==
  [accessToken |-> Undefined, appId |-> Undefined, appSecret |-> Undefined,
   accountId |-> Undefined]

MetaAdsConfig(e) ==
  [accessToken |-> GetEnv(e, "META_ADS_ACCESS_TOKEN"),
   appId       |-> GetEnv(e, "META_ADS_APP_ID"),
   appSecret   |-> GetEnv(e, "META_ADS_APP_SECRET"),
   accountId   |-> GetEnv(e, "META_ADS_ACCOUNT_ID")]

initializeMetaAds(e) ==
  LET adsConfig     == MetaAdsConfig(e)
      missingFields == MissingFields(adsConfig, MetaAdsRequiredFields) IN
  IF Len(missingFields) > 0
  THEN Failed(adsConfig, Thrown("Missing required Meta Ads configuration",
                                MissingNames("META_ADS_", missingFields)))
  ELSE Built(adsConfig, "ready")

\* new MetaAdsMCPServer(): super() runs initialize() and setupTools(); when it
\* returns, the field initializers `api = null` and `adsConfig = {}` run
MetaAdsConstructor(e) ==
  LET init == initializeMetaAds(e) IN
  IF init.ok THEN Built(EmptyAdsConfig, "null") ELSE init

\* a || b || c over the project variables
FirstSet(e, names) ==
  IF \E i \in 1..Len(names) : ~Not(GetEnv(e, names[i]))
  THEN names[CHOOSE i \in 1..Len(names) :
               /\ ~Not(GetEnv(e, names[i]))
               /\ \A j \in 1..(i - 1) : Not(GetEnv(e, names[j]))]
  ELSE Undefined

ProjectIdRequired == Thrown("Project ID is required", <<>>)

\* BigQueryMCPServer.initializeBigQuery of the McpServer variant
initializeBigQuery(e) ==
  LET serviceAccountPath == GetEnv(e, "GOOGLE_APPLICATION_CREDENTIALS")
      parsed      == serviceAccountPath = "keyfile"
      fromFile    == IF parsed THEN "project_id of key file" ELSE Undefined
      keyFilename == IF parsed THEN "GOOGLE_APPLICATION_CREDENTIALS" ELSE Undefined
      projectId   == IF Not(fromFile)
                     THEN FirstSet(e, <<"GOOGLE_CLOUD_PROJECT", "BQ_PROJECT_ID",
                                        "GCLOUD_PROJECT">>)
                     ELSE fromFile
      cfg == [projectId |-> projectId, keyFilename |-> keyFilename,
              location |-> "US"]
  IN IF Not(projectId) THEN Failed(cfg, ProjectIdRequired) ELSE Built(cfg, "ready")

\* process.env.BQ_LOCATION || "US"
LocationOf(e) ==
  IF Not(GetEnv(e, "BQ_LOCATION")) THEN "US" ELSE GetEnv(e, "BQ_LOCATION")

\* BigQueryMCPServer.initializeBigQuery of the older Server variant
initializeBigQueryLegacy(e) ==
  LET source      == FirstSet(e, <<"argv2", "GOOGLE_APPLICATION_CREDENTIALS">>)
      keyFilename == source
      parsed      == source # Undefined /\ e[source] = "keyfile"
      fromFile    == IF parsed THEN "project_id of key file" ELSE Undefined
      projectId   == IF Not(fromFile)
                     THEN FirstSet(e, <<"GOOGLE_CLOUD_PROJECT", "BQ_PROJECT_ID">>)
                     ELSE fromFile
      cfg == [projectId |-> projectId, keyFilename |-> keyFilename,
              location |-> LocationOf(e)]
  IN IF Not(projectId) THEN Failed(cfg, ProjectIdRequired) ELSE Built(cfg, "ready")

\* new XServer() as main() runs it
Construct(svc, e) ==
  CASE svc = "google_ads"      -> initializeGoogleAds(GoogleAdsConfig(e))
    [] svc = "meta_ads"        -> MetaAdsConstructor(e)
    [] svc = "bigquery"        -> initializeBigQuery(e)
    [] svc = "bigquery_legacy" -> initializeBigQueryLegacy(e)

(* ---------------------------------------------------------------------- *)
(* Command line and the transport run() starts                             *)
(* ---------------------------------------------------------------------- *)

TransportFlag == <<"-", "-", "t", "r", "a", "n", "s", "p", "o", "r", "t">>

PortFlag == <<"-", "-", "p", "o", "r", "t">>

HttpWord == <<"h", "t", "t", "p">>

StdioWord == <<"s", "t", "d", "i", "o">>

\* String.prototype.startsWith
StartsWith(s, prefix) ==
  Len(s) >= Len(prefix) /\ SubSeq(s, 1, Len(prefix)) = prefix

\* s.split("=")[1]: what stands between the first "=" and the next one, or
\* the end of the string
AfterEquals(s) ==
  LET first == CHOOSE i \in 1..Len(s) :
                 s[i] = "=" /\ \A j \in 1..(i - 1) : s[j] # "="
      rest  == SubSeq(s, first + 1, Len(s))
  IN IF \E i \in 1..Len(rest) : rest[i] = "="
     THEN SubSeq(rest, 1, (CHOOSE i \in 1..Len(rest) :
                             rest[i] = "=" /\ \A j \in 1..(i - 1) : rest[j] # "=") - 1)
     ELSE rest

\* args.find(arg => arg.startsWith("--transport")): its index, 0 when no
\* argument starts so
TransportArg(args) ==
  IF \E i \in 1..Len(args) : StartsWith(args[i], TransportFlag)
  THEN CHOOSE i \in 1..Len(args) :
         /\ StartsWith(args[i], TransportFlag)
         /\ \A j \in 1..(i - 1) : ~StartsWith(args[j], TransportFlag)
  ELSE 0

\* the mode the first --transport argument names: after its "=", or the
\* argument that follows it (<<>> when none follows)
NamedMode(args) ==
  LET index == TransportArg(args) IN
  IF Includes(args[index], <<"=">>) THEN AfterEquals(args[index])
  ELSE IF index < Len(args) THEN args[index + 1] ELSE <<>>

\* args.some(arg => arg.startsWith("--port") || arg === "http")
PortOrHttp(args) ==
  \E i \in 1..Len(args) : StartsWith(args[i], PortFlag) \/ args[i] = HttpWord

getTransportModeAs(args) ==
  IF TransportArg(args) # 0 THEN NamedMode(args)
  ELSE IF PortOrHttp(args) THEN HttpWord
  ELSE StdioWord

\* BaseMCPServer.getTransportMode
getTransportMode(args) ==
  IF TransportArg(args) # 0
  THEN (IF NamedMode(args) = HttpWord THEN HttpWord ELSE StdioWord)
  ELSE IF PortOrHttp(args) THEN HttpWord
  ELSE StdioWord

\* BigQueryMCPServer.getTransportMode of the McpServer variant: the named
\* mode is returned as it was written, "stdio" when no argument follows
BigQueryGetTransportMode(args) ==
  IF TransportArg(args) # 0
  THEN (IF NamedMode(args) = <<>> /\ ~Includes(args[TransportArg(args)], <<"=">>)
        THEN StdioWord ELSE NamedMode(args))
  ELSE IF PortOrHttp(args) THEN HttpWord
  ELSE StdioWord

\* the switch of run(): the transport it starts, "exit" at its default case
SwitchMode(mode) ==
  IF mode = StdioWord THEN "stdio"
  ELSE IF mode = HttpWord THEN "http"
  ELSE "exit"

\* run() of each server: the Google Ads server and the older BigQuery server
\* connect a StdioServerTransport whatever the arguments are
run(svc, args) ==
  CASE svc = "meta_ads" -> SwitchMode(getTransportMode(args))
    [] svc = "bigquery" -> SwitchMode(BigQueryGetTransportMode(args))
    [] OTHER            -> "stdio"

\* console.error(`Unknown transport mode: ${mode}`) at the default case
UnknownMode == [thrown |-> FALSE, text |-> "Unknown transport mode", vars |-> <<>>]

(* ---------------------------------------------------------------------- *)
(* Requests, thrown values and response envelopes                          *)
(* ---------------------------------------------------------------------- *)

Slots == 1..MaxReq

\* the correlation id of the request in slot n: a client keeps the ids of its
\* outstanding requests apart
RequestId(n) == n

BigQueryTools ==
  <<"list_datasets", "list_tables", "get_table_schema", "execute_query",
    "get_query_results">>

GoogleAdsTools ==
  <<"list_customers", "get_customer_info", "list_campaigns",
    "get_campaign_performance", "execute_gaql_query">>

MetaAdsTools ==
  <<"get_account_info", "list_campaigns", "get_campaign", "list_adsets",
    "list_ads", "get_insights">>

Range(seq) == {seq[i] : i \in 1..Len(seq)}

\* the tools whose input schema declares required keys
HasRequired(svc, name) ==
  CASE svc = "meta_ads"   -> name \in {"get_campaign", "list_adsets", "list_ads",
                                       "get_insights"}
    [] svc = "google_ads" -> name \in {"get_customer_info", "list_campaigns",
                                       "get_campaign_performance",
                                       "execute_gaql_query"}
    [] OTHER              -> name \in {"list_tables", "get_table_schema",
                                       "execute_query", "get_query_results"}

\* an optional number of the arguments: left out, or given with a value
Omitted == [given |-> FALSE, value |-> 0]

Given(n) == [given |-> TRUE, value |-> n]

\* x || d on an optional number: 0 is as falsy as undefined
OrDefault(x, d) == IF ~x.given \/ x.value = 0 THEN Given(d) ELSE x

\* const { x = d } = args: the default stands in for undefined only
DefaultParam(x, d) == IF x.given THEN x ELSE Given(d)

\* arguments of a tools/call: `required` says what the caller put under the
\* tool's required keys (a proper value, or nothing); accountId is the
\* optional Meta Ads account; limit is the optional result count (limit, or
\* maxResults of the BigQuery tools); datePreset and timeRange are the
\* optional periods of get_insights; query is the text of a query tool;
\* dryRun is the optional flag of execute_query ("true", "false" or left out)
NoArgs ==
  [required |-> "ok", accountId |-> Undefined, limit |-> Omitted,
   datePreset |-> Undefined, timeRange |-> Undefined, query |-> <<>>,
   dryRun |-> Undefined]

RequiredVals == {"ok", "missing"}

\* the arguments fail the tool's declared input schema: a required key is
\* not there
SchemaFails(svc, name, args) ==
  /\ HasRequired(svc, name)
  /\ args.required = "missing"

\* a thrown value: isError says it is an Error instance, message is its
\* message property (<<>> when it has none), string is String(error), and
\* errors is its array of sub-errors, each given by its message (<<>> for a
\* sub-error without one), when hasErrors says it carries such an array

\* new Error(message)
Err(message) ==
  [isError |-> TRUE, message |-> message, string |-> <<"Error: ">> \o message,
   hasErrors |-> FALSE, errors |-> <<>>]

\* a rejection value that is not an Error instance
PlainObject ==
  [isError |-> FALSE, message |-> <<>>, string |-> <<"[object Object]">>,
   hasErrors |-> FALSE, errors |-> <<>>]

\* an object that is not an Error instance and has a message property
ObjectWithMessage(message) == [PlainObject EXCEPT !.message = message]

\* the failure object of the Google Ads client: not an Error instance, with
\* an errors array
GoogleAdsFailure(subs) == [PlainObject EXCEPT !.hasErrors = TRUE, !.errors = subs]

\* the ApiError of the Google Cloud clients: an Error instance with an errors
\* array
ApiError(message, subs) == [Err(message) EXCEPT !.hasErrors = TRUE, !.errors = subs]

NoThrow ==
  [isError |-> FALSE, message |-> <<>>, string |-> <<>>,
   hasErrors |-> FALSE, errors |-> <<>>]

\* error instanceof Error ? error.message : String(error)
ErrorMessageAs(error) == error.message

ErrorMessage(error) == IF error.isError THEN error.message ELSE error.string

\* how a vendor SDK promise settles: with the data of the vendor (the
\* datasets of getDatasets; kept only for list_datasets), or with a rejection
VendorOk == [ok |-> TRUE, error |-> NoThrow, data |-> <<>>]

VendorData(data) == [VendorOk EXCEPT !.data = data]

VendorFails(error) == [ok |-> FALSE, error |-> error, data |-> <<>>]

VendorOutcomes ==
  {VendorOk} \cup {VendorFails(e) : e \in {Err(<<"vendor failure">>), PlainObject}}

NoResult ==
  [present |-> FALSE, kind |-> "none", tools |-> <<>>, text |-> <<>>, isError |-> FALSE,
   json |-> <<>>]

NoError == [present |-> FALSE, code |-> 0, message |-> <<>>]

\* { content: [{ type: "text", text }] } and the same with isError: true
Content(text) ==
  [present |-> TRUE, kind |-> "content", tools |-> <<>>, text |-> text, isError |-> FALSE,
   json |-> <<>>]

ErrorContent(text) ==
  [present |-> TRUE, kind |-> "content", tools |-> <<>>, text |-> text, isError |-> TRUE,
   json |-> <<>>]

\* content whose text is `${...text}${JSON.stringify(array, null, 2)}`: text
\* holds what stands before the JSON, json the array the JSON spells out
JsonContent(text, array) == [Content(text) EXCEPT !.json = array]

\* { tools: [...] }, by name
ToolsResult(tools) ==
  [present |-> TRUE, kind |-> "tools", tools |-> tools, text |-> <<>>, isError |-> FALSE,
   json |-> <<>>]

\* { protocolVersion, capabilities, serverInfo }
InitializeResult ==
  [present |-> TRUE, kind |-> "initialize", tools |-> <<>>, text |-> <<>>, isError |-> FALSE,
   json |-> <<>>]

\* { jsonrpc: "2.0", result, id: request.id }
ResultEnvelope(request, result) ==
  [id |-> request.id, result |-> result, error |-> NoError]

\* { jsonrpc: "2.0", error: { code, message }, id: request.id }
ErrorEnvelopeAs(request, code, message) ==
  [id |-> request.id, result |-> Content(message),
   error |-> [present |-> TRUE, code |-> code, message |-> message]]

ErrorEnvelope(request, code, message) ==
  [id |-> request.id, result |-> NoResult,
   error |-> [present |-> TRUE, code |-> code, message |-> message]]

NoEnvelope == [id |-> 0, result |-> NoResult, error |-> NoError]

\* JSON.stringify(data, null, 2) of what the vendor returned for the tool
Json(name) == <<"JSON of ", name>>

\* the datasets getDatasets can list: the id of each and the friendlyName of
\* its metadata (undefined when it has none)
Datasets ==
  {[id |-> "sales", friendlyName |-> "Sales data"],
   [id |-> "scratch", friendlyName |-> Undefined]}

RECURSIVE ListsOf(_, _)
ListsOf(set, n) ==
  IF n = 0 THEN {<<>>}
  ELSE LET shorter == ListsOf(set, n - 1) IN
       shorter \cup {Append(l, x) : l \in shorter, x \in set}

\* datasets.map(...) of the McpServer variant, as JSON.stringify writes it:
\* friendlyName: dataset.metadata?.friendlyName || null
datasetListAs(datasets) ==
  [i \in 1..(IF Len(datasets) > 1 THEN 1 ELSE Len(datasets)) |->
     [id |-> datasets[i].id,
      friendlyName |-> IF Not(datasets[i].friendlyName) THEN "null"
                       ELSE datasets[i].friendlyName,
      keys |-> {"id", "friendlyName"}]]

datasetList(datasets) ==
  [i \in 1..Len(datasets) |->
     [id |-> datasets[i].id,
      friendlyName |-> IF Not(datasets[i].friendlyName) THEN "null"
                       ELSE datasets[i].friendlyName,
      keys |-> {"id", "friendlyName"}]]

\* datasets.map(...) of the older Server variant, as JSON.stringify writes it:
\* friendlyName: dataset.metadata?.friendlyName, and a key whose value is
\* undefined is left out
LegacyDatasetList(datasets) ==
  [i \in 1..Len(datasets) |->
     [id |-> datasets[i].id,
      friendlyName |-> datasets[i].friendlyName,
      keys |-> IF datasets[i].friendlyName = Undefined THEN {"id"}
               ELSE {"id", "friendlyName"}]]

\* the keys of the object execute_query of the McpServer variant writes as
\* JSON: the validation of a dry run, or the rows of the job
QueryPayload(dry) ==
  IF dry THEN <<"{", "jobId", "valid", "totalBytesProcessed", "estimatedCost", "}">>
  ELSE <<"{", "jobId", "rows", "totalRows", "}">>

\* the text executeQuery of the older Server variant returns
LegacyQueryPayload(dry) ==
  IF dry
  THEN <<"Query validation successful. Estimated bytes processed: ",
         "totalBytesProcessed">>
  ELSE <<"Query executed successfully. Job ID: ", "jobId", "\n\nResults (",
         "rowCount", " rows):\n\n", "{", "jobId", "totalRows", "bytesProcessed",
         "cacheHit", "rows", "rowCount", "}">>

\* the content a BigQuery tool of the McpServer variant returns for the data
\* of the vendor, on stdio and on HTTP
BigQueryToolResult(name, args, outcome) ==
  IF name = "list_datasets" THEN JsonContent(<<>>, datasetList(outcome.data))
  ELSE IF name = "execute_query" THEN Content(QueryPayload(args.dryRun = "true"))
  ELSE Content(Json(name))

\* the vendor SDK entry point each tool calls first
VendorOp(svc, name) == <<svc, name>>

\* what a tool hands to the vendor SDK, as far as the tools differ in it:
\* limit is the bound on the number of results (the limit parameter, the
\* maxResults option, or the LIMIT clause the tool writes into its query),
\* query the query text of the caller as it is forwarded, before a LIMIT
\* clause the tool appends
NoParams ==
  [limit |-> Omitted, date_preset |-> Undefined, time_range |-> Undefined,
   query |-> <<>>, location |-> Undefined, dryRun |-> Undefined,
   account |-> Undefined]

\* const campaignParams: any = { limit: toolArgs.limit || 25 }, and the same
\* for adsetParams and adParams
campaignParamsAs(toolArgs) == [NoParams EXCEPT !.limit = toolArgs.limit]

campaignParams(toolArgs) == [NoParams EXCEPT !.limit = OrDefault(toolArgs.limit, 25)]

\* insightParams of get_insights
insightParamsAs(toolArgs) ==
  IF ~Not(toolArgs.datePreset)
  THEN [NoParams EXCEPT !.date_preset = toolArgs.datePreset]
  ELSE IF ~Not(toolArgs.timeRange)
  THEN [NoParams EXCEPT !.time_range = toolArgs.timeRange]
  ELSE NoParams

insightParamsBoth(toolArgs) ==
  [NoParams EXCEPT
     !.date_preset = IF ~Not(toolArgs.datePreset) THEN toolArgs.datePreset
                     ELSE IF ~Not(toolArgs.timeRange) THEN Undefined
                     ELSE "lifetime",
     !.time_range = toolArgs.timeRange]

insightParams(toolArgs) ==
  IF ~Not(toolArgs.datePreset)
  THEN [NoParams EXCEPT !.date_preset = toolArgs.datePreset]
  ELSE IF ~Not(toolArgs.timeRange)
  THEN [NoParams EXCEPT !.time_range = toolArgs.timeRange]
  ELSE [NoParams EXCEPT !.date_preset = "lifetime"]

\* const accountId = toolArgs.accountId || this.adsConfig.accountId
accountId(toolArgs, adsConfig) ==
  IF Not(toolArgs.accountId) THEN adsConfig.accountId ELSE toolArgs.accountId

\* what a Meta Ads tool hands to the SDK; account is the id of the AdAccount
\* that get_account_info reads and list_campaigns lists the campaigns of
MetaAdsParams(name, toolArgs, adsConfig) ==
  CASE name = "list_campaigns" ->
         [campaignParams(toolArgs) EXCEPT !.account = accountId(toolArgs, adsConfig)]
    [] name = "get_account_info" ->
         [NoParams EXCEPT !.account = accountId(toolArgs, adsConfig)]
    [] name \in {"list_adsets", "list_ads"} -> campaignParams(toolArgs)
    [] name = "get_insights" -> insightParams(toolArgs)
    [] OTHER -> NoParams

\* the characters of "limit"
LimitWord == <<"l", "i", "m", "i", "t">>

\* execute_gaql_query: finalQuery = args.query.trim(), and ` LIMIT ${limit}`
\* is appended unless finalQuery.toLowerCase().includes("limit")
finalQueryAs(args) ==
  LET trimmed == Trim(args.query) IN
  [NoParams EXCEPT !.query = trimmed,
                   !.limit = IF Includes(trimmed, LimitWord)
                             THEN Omitted ELSE OrDefault(args.limit, 100)]

finalQuery(args) ==
  LET trimmed == Trim(args.query) IN
  [NoParams EXCEPT !.query = trimmed,
                   !.limit = IF Includes(ToLowerCase(trimmed), LimitWord)
                             THEN Omitted ELSE OrDefault(args.limit, 100)]

\* the GAQL each Google Ads tool sends
GoogleAdsParams(name, args) ==
  CASE name = "list_campaigns" -> [NoParams EXCEPT !.limit = OrDefault(args.limit, 50)]
    [] name = "get_campaign_performance" -> [NoParams EXCEPT !.limit = Given(50)]
    [] name = "get_customer_info" -> [NoParams EXCEPT !.limit = Given(1)]
    [] name = "execute_gaql_query" -> finalQuery(args)
    [] OTHER -> NoParams

\* the options of createQueryJob and getQueryResults in the McpServer
\* variant, on stdio and on HTTP:
\* const { query, dryRun = false, maxResults = 100 } = args
BigQueryParams(name, args, cfg) ==
  CASE name = "execute_query" ->
         [NoParams EXCEPT !.query = args.query, !.location = cfg.location,
                          !.limit = DefaultParam(args.limit, 100),
                          !.dryRun = IF args.dryRun = Undefined THEN "false"
                                     ELSE args.dryRun]
    [] name = "get_query_results" ->
         [NoParams EXCEPT !.limit = DefaultParam(args.limit, 100)]
    [] OTHER -> NoParams

\* the same in the older Server variant: (args?.maxResults as number) || 100
\* and (args?.dryRun as boolean) || false
LegacyParams(name, args, cfg) ==
  CASE name = "execute_query" ->
         [NoParams EXCEPT !.query = args.query, !.location = cfg.location,
                          !.limit = OrDefault(args.limit, 100),
                          !.dryRun = IF args.dryRun \in {Undefined, "false"}
                                     THEN "false" ELSE args.dryRun]
    [] name = "get_query_results" ->
         [NoParams EXCEPT !.limit = OrDefault(args.limit, 100)]
    [] OTHER -> NoParams

VendorParams(svc, request, cfg) ==
  CASE svc = "meta_ads"        -> MetaAdsParams(request.name, request.args, cfg)
    [] svc = "google_ads"      -> GoogleAdsParams(request.name, request.args)
    [] svc = "bigquery"        -> BigQueryParams(request.name, request.args, cfg)
    [] svc = "bigquery_legacy" -> LegacyParams(request.name, request.args, cfg)

\* the call of the vendor SDK a suspended handler waits for
VendorCall(svc, request, cfg) ==
  [op |-> VendorOp(svc, request.name), params |-> VendorParams(svc, request, cfg)]

\* the handlers that await a second vendor promise when the first one is
\* fulfilled: execute_query awaits createQueryJob and then the job, the
\* older get_query_results awaits getQueryResults and then getMetadata
CallsAgain(svc, calls) ==
  /\ Len(calls) = 1
  /\ \/ calls[1].op[2] = "execute_query"
     \/ svc = "bigquery_legacy" /\ calls[1].op[2] = "get_query_results"

\* if (dryRun) job.getMetadata() else job.getQueryResults({ maxResults })
SecondCall(svc, first) ==
  IF first.op[2] = "execute_query" /\ first.params.dryRun # "true"
  THEN [op |-> <<svc, "job.getQueryResults">>,
        params |-> [NoParams EXCEPT !.limit = first.params.limit]]
  ELSE [op |-> <<svc, "job.getMetadata">>, params |-> NoParams]

\* what a handler does up to its first await: it throws, returns, returns
\* from its own catch block, or calls the vendor SDK and suspends
Throws(error) ==
  [kind |-> "throw", error |-> error, result |-> NoResult, raised |-> TRUE]

Returns(result) ==
  [kind |-> "return", error |-> NoThrow, result |-> result, raised |-> FALSE]

Caught(result) ==
  [kind |-> "return", error |-> NoThrow, result |-> result, raised |-> TRUE]

Awaits ==
  [kind |-> "await", error |-> NoThrow, result |-> NoResult, raised |-> FALSE]

\* what a transport does with a request up to the first await: it writes the
\* response (raised: after a failure was raised), the handler is suspended on
\* the vendor call, or an error escapes to the POST handler's outer catch,
\* which answers 500 { error: "Internal server error", details } without id
Respond(envelope) ==
  [await |-> FALSE, envelope |-> envelope, raised |-> FALSE, fault |-> FALSE]

RespondError(envelope) ==
  [await |-> FALSE, envelope |-> envelope, raised |-> TRUE, fault |-> FALSE]

Suspend ==
  [await |-> TRUE, envelope |-> NoEnvelope, raised |-> FALSE, fault |-> FALSE]

Fault(error) ==
  [await |-> FALSE,
   envelope |-> [id |-> 0, result |-> NoResult,
                 error |-> [present |-> TRUE, code |-> 500,
                            message |-> <<"Internal server error: ">> \o
                                        ErrorMessage(error)]],
   raised |-> TRUE, fault |-> TRUE]

(* ---------------------------------------------------------------------- *)
(* Meta Ads over HTTP: BaseMCPServer.runHTTP and MetaAdsMCPServer          *)
(* ---------------------------------------------------------------------- *)

\* the names handleToolsList returns, in its order
MetaAdsListedToolsAs ==
  <<"get_account_info", "list_campaigns", "get_campaign", "list_adsets",
    "list_ads", "list_ads">>

MetaAdsListedTools ==
  <<"get_account_info", "list_campaigns", "get_campaign", "list_adsets",
    "list_ads", "get_insights">>

\* the case labels of the switch in handleToolCall
MetaAdsCases ==
  {"get_account_info", "list_campaigns", "get_campaign", "list_adsets",
   "list_ads", "get_insights"}

NotInitialized == Err(<<"Meta Ads API not initialized">>)

NoAccountId == Err(<<"No account ID provided and no default account ID configured">>)

\* MetaAdsMCPServer.handleToolsList
handleToolsList(request) == ResultEnvelope(request, ToolsResult(MetaAdsListedTools))

\* the try block of MetaAdsMCPServer.handleToolCall up to its first await
MetaToolCallTry(toolName, toolArgs, api, adsConfig) ==
  IF toolName \notin MetaAdsCases THEN Throws(Err(<<"Unknown tool: ", toolName>>))
  ELSE IF api = "null" THEN Throws(NotInitialized)
  ELSE IF toolName \in {"get_account_info", "list_campaigns"}
          /\ Not(toolArgs.accountId) /\ Not(adsConfig.accountId)
       THEN Throws(NoAccountId)
  ELSE IF toolName = "get_insights" /\ toolArgs.required # "ok"
       THEN Throws(Err(<<"Invalid object type">>))
  ELSE Awaits

\* MetaAdsMCPServer.handleToolCall up to its first await
handleToolCallAs(request, api, adsConfig) ==
  LET step == MetaToolCallTry(request.name, request.args, api, adsConfig) IN
  IF step.kind = "throw" THEN Fault(step.error) ELSE Suspend

handleToolCall(request, api, adsConfig) ==
  LET step == MetaToolCallTry(request.name, request.args, api, adsConfig) IN
  IF step.kind = "throw"
  THEN RespondError(ErrorEnvelope(request, -32000, ErrorMessage(step.error)))
  ELSE Suspend

\* MetaAdsMCPServer.handleToolCall from the settled vendor promise on
handleToolCallResume(request, outcome) ==
  IF outcome.ok
  THEN ResultEnvelope(request, Content(Json(request.name)))
  ELSE ErrorEnvelope(request, -32000, ErrorMessage(outcome.error))

\* the method switch of BaseMCPServer.runHTTP's POST /mcp handler
BaseRunHTTP(request, api, adsConfig) ==
  CASE request.method = "initialize" ->
         Respond(ResultEnvelope(request, InitializeResult))
    [] request.method = "tools/list" -> Respond(handleToolsList(request))
    [] request.method = "tools/call" -> handleToolCall(request, api, adsConfig)
    [] OTHER -> Respond(ErrorEnvelope(request, -32601, <<"Method not found">>))

(* ---------------------------------------------------------------------- *)
(* BigQuery over HTTP: BigQueryMCPServer.runHTTP                           *)
(* ---------------------------------------------------------------------- *)

\* the names of the tools/list case, in its order
BigQueryListedTools ==
  <<"list_datasets", "list_tables", "get_table_schema", "execute_query",
    "get_query_results">>

\* the case labels of the switch on toolName
BigQueryCases ==
  {"list_datasets", "list_tables", "get_table_schema", "execute_query",
   "get_query_results"}

ClientNotInitialized == Err(<<"BigQuery client not initialized">>)

\* the try block of the tools/call case up to its first await: no case looks
\* at toolArgs before handing them to the BigQuery client
BigQueryToolCallTry(toolName, toolArgs, bigquery) ==
  IF toolName \notin BigQueryCases THEN Throws(Err(<<"Unknown tool: ", toolName>>))
  ELSE IF bigquery = "null" THEN Throws(ClientNotInitialized)
  ELSE Awaits

\* the tools/call case up to its first await
BigQueryToolCall(request, bigquery) ==
  LET step == BigQueryToolCallTry(request.name, request.args, bigquery) IN
  IF step.kind = "throw"
  THEN RespondError(ErrorEnvelope(request, -32000, ErrorMessage(step.error)))
  ELSE Suspend

\* the tools/call case from the settled vendor promise on
BigQueryToolCallResumeAs(request, outcome) ==
  IF outcome.ok
  THEN [id |-> RequestId(1), result |-> BigQueryToolResult(request.name, request.args, outcome),
        error |-> NoError]
  ELSE ErrorEnvelope(request, -32000, ErrorMessage(outcome.error))

BigQueryToolCallResume(request, outcome) ==
  IF outcome.ok
  THEN ResultEnvelope(request, BigQueryToolResult(request.name, request.args, outcome))
  ELSE ErrorEnvelope(request, -32000, ErrorMessage(outcome.error))

\* the tools/list case
BigQueryToolsListAs(request) ==
  ResultEnvelope(request,
    ToolsResult(IF request.id = RequestId(1) THEN BigQueryListedTools
                ELSE Tail(BigQueryListedTools)))

BigQueryToolsList(request) ==
  ResultEnvelope(request, ToolsResult(BigQueryListedTools))

\* the method switch of BigQueryMCPServer.runHTTP's POST /mcp handler
BigQueryRunHTTPAs(request, bigquery) ==
  CASE request.method = "initialize" ->
         Respond(ResultEnvelope(request, InitializeResult))
    [] request.method = "tools/list" -> Respond(BigQueryToolsList(request))
    [] request.method = "tools/call" -> BigQueryToolCall(request, bigquery)
    [] OTHER -> Respond(ErrorEnvelope(request, -32600, <<"Method not found">>))

BigQueryRunHTTP(request, bigquery) ==
  CASE request.method = "initialize" ->
         Respond(ResultEnvelope(request, InitializeResult))
    [] request.method = "tools/list" -> Respond(BigQueryToolsList(request))
    [] request.method = "tools/call" -> BigQueryToolCall(request, bigquery)
    [] OTHER -> Respond(ErrorEnvelope(request, -32601, <<"Method not found">>))

(* ---------------------------------------------------------------------- *)
(* The handlers registered with McpServer.tool (stdio)                     *)
(* ---------------------------------------------------------------------- *)

\* the text a handler's catch block puts before the error message; an
\* argument the template interpolates stands there by its name
ErrorPrefix(svc, name) ==
  CASE svc = "meta_ads" /\ name = "get_account_info" -> <<"Error getting account info: ">>
    [] svc = "meta_ads" /\ name = "list_campaigns"   -> <<"Error listing campaigns: ">>
    [] svc = "meta_ads" /\ name = "get_campaign"     -> <<"Error getting campaign: ">>
    [] svc = "meta_ads" /\ name = "list_adsets"      -> <<"Error listing ad sets: ">>
    [] svc = "meta_ads" /\ name = "list_ads"         -> <<"Error listing ads: ">>
    [] svc = "meta_ads" /\ name = "get_insights"     -> <<"Error getting insights: ">>
    [] svc = "google_ads" /\ name = "list_customers"    -> <<"Error listing customers: ">>
    [] svc = "google_ads" /\ name = "get_customer_info" -> <<"Error getting customer info: ">>
    [] svc = "google_ads" /\ name = "list_campaigns"    -> <<"Error listing campaigns: ">>
    [] svc = "google_ads" /\ name = "get_campaign_performance" ->
         <<"Error getting campaign performance: ">>
    [] svc = "google_ads" /\ name = "execute_gaql_query" -> <<"Error executing GAQL query: ">>
    [] svc = "bigquery" /\ name = "list_datasets" -> <<"Error listing datasets: ">>
    [] svc = "bigquery" /\ name = "list_tables" ->
         <<"Error listing tables in dataset ", "datasetId", ": ">>
    [] svc = "bigquery" /\ name = "get_table_schema" ->
         <<"Error getting schema for table ", "datasetId", ".", "tableId", ": ">>
    [] svc = "bigquery" /\ name = "execute_query" -> <<"Error executing query: ">>
    [] svc = "bigquery" /\ name = "get_query_results" ->
         <<"Error getting query results for job ", "jobId", ": ">>

\* error.errors.map((e) => e.message || "Unknown error").join("; ")
RECURSIVE JoinMessages(_)
JoinMessages(subs) ==
  IF subs = <<>> THEN <<>>
  ELSE (IF Head(subs) = <<>> THEN <<"Unknown error">> ELSE Head(subs))
       \o (IF Tail(subs) = <<>> THEN <<>> ELSE <<"; ">> \o JoinMessages(Tail(subs)))

\* GoogleAdsMCPServer.formatError
formatErrorAs(error) ==
  IF error.hasErrors THEN JoinMessages(error.errors)
  ELSE IF error.message # <<>> THEN error.message
  ELSE error.string

formatError(error) ==
  IF error.isError THEN error.message
  ELSE IF error.hasErrors THEN JoinMessages(error.errors)
  ELSE IF error.message # <<>> THEN error.message
  ELSE error.string

\* a BigQuery handler of setupTools up to its first await
BigQueryStdioTool(name, args, bigquery) ==
  IF bigquery = "null" THEN
    (IF name = "list_datasets"
     THEN Returns(Content(<<"Error: BigQuery client not initialized">>))
     ELSE Throws(ClientNotInitialized))
  ELSE Awaits

\* a Google Ads handler of setupTools up to its first await
GoogleAdsTool(name, args, googleAds, cfg) ==
  IF googleAds = "null" THEN Throws(Err(<<"Google Ads client not initialized">>))
  ELSE IF name = "list_campaigns" /\ args.required # "ok" /\ Not(cfg.customerId)
       THEN Returns(Content(<<"Error: Customer ID is required.">>))
  ELSE IF name = "execute_gaql_query" /\ args.required = "missing"
       THEN Returns(Content(<<"Error: Query parameter is required">>))
  ELSE Awaits

\* get_account_info re-initializes before its try block when this.api is null
ReinitializesAs(name, api) == api = "null"

Reinitializes(name, api) == name = "get_account_info" /\ api = "null"

\* a Meta Ads handler of setupTools up to its first await; api and adsConfig
\* are the fields as the handler finds them after a re-initialization
MetaAdsStdioTool(name, args, api, adsConfig) ==
  IF api = "null" THEN Throws(NotInitialized)
  ELSE IF name \in {"get_account_info", "list_campaigns"}
          /\ Not(args.accountId) /\ Not(adsConfig.accountId)
       THEN Caught(Content(ErrorPrefix("meta_ads", name) \o NoAccountId.message))
  ELSE IF name = "get_insights" /\ args.required # "ok"
       THEN Caught(Content(ErrorPrefix("meta_ads", name) \o <<"Invalid object type">>))
  ELSE Awaits

\* the tools in the order setupTools registers them
RegisteredTools(svc) ==
  CASE svc = "meta_ads"   -> MetaAdsTools
    [] svc = "google_ads" -> GoogleAdsTools
    [] OTHER              -> BigQueryTools

\* the fields a Meta Ads stdio handler works with: get_account_info calls
\* initializeMetaAds first when this.api is null
FieldsSeenBy(svc, name, e, cl, cfg) ==
  IF svc = "meta_ads" /\ Reinitializes(name, cl)
  THEN initializeMetaAds(e)
  ELSE Built(cfg, cl)

StdioTool(svc, name, args, e, cl, cfg) ==
  LET seen == FieldsSeenBy(svc, name, e, cl, cfg) IN
  CASE svc = "meta_ads" ->
         IF seen.ok THEN MetaAdsStdioTool(name, args, seen.client, seen.config)
         ELSE Throws(Err(<<seen.fatal.text>>))
    [] svc = "google_ads" -> GoogleAdsTool(name, args, cl, cfg)
    [] OTHER -> BigQueryStdioTool(name, args, cl)

\* a handler of setupTools from the settled vendor promise on: the catch
\* block returns the error as ordinary text content
StdioToolResume(svc, request, outcome) ==
  IF outcome.ok
  THEN (IF svc = "bigquery"
        THEN BigQueryToolResult(request.name, request.args, outcome)
        ELSE Content(Json(request.name)))
  ELSE Content(ErrorPrefix(svc, request.name) \o
               (IF svc = "google_ads" THEN formatError(outcome.error)
                ELSE ErrorMessage(outcome.error)))

\* the MCP SDK refusing a call itself (unknown tool, arguments that fail the
\* registered zod schema): a JSON-RPC error in some releases, a result
\* flagged isError in others; the release installed is not fixed by the
\* sources, so each refusal may take either shape
SdkShapes == {"protocol_error", "tool_error"}

SdkReject(request, message, shape) ==
  IF shape = "protocol_error"
  THEN ErrorEnvelope(request, -32602, message)
  ELSE ResultEnvelope(request, ErrorContent(message))

\* tools/call on an McpServer: lookup, schema validation, then the handler;
\* what the handler throws comes back as a result flagged isError
McpCallTool(svc, request, e, cl, cfg, shape) ==
  IF request.name \notin Range(RegisteredTools(svc))
  THEN Respond(SdkReject(request, <<"Tool not found: ", request.name>>, shape))
  ELSE IF SchemaFails(svc, request.name, request.args)
  THEN Respond(SdkReject(request, <<"Invalid arguments for tool ", request.name>>,
                         shape))
  ELSE LET step == StdioTool(svc, request.name, request.args, e, cl, cfg) IN
       CASE step.kind = "throw" ->
              RespondError(ResultEnvelope(request,
                                          ErrorContent(ErrorMessage(step.error))))
         [] step.kind = "return" /\ step.raised ->
              RespondError(ResultEnvelope(request, step.result))
         [] step.kind = "return" /\ ~step.raised ->
              Respond(ResultEnvelope(request, step.result))
         [] OTHER -> Suspend

\* the handler of a tools/call reached the handler's body
ReachesHandler(svc, request) ==
  /\ request.method = "tools/call"
  /\ request.name \in Range(RegisteredTools(svc))
  /\ ~SchemaFails(svc, request.name, request.args)

(* ---------------------------------------------------------------------- *)
(* The older BigQuery server: Server.setRequestHandler (stdio)             *)
(* ---------------------------------------------------------------------- *)

\* the names the ListToolsRequestSchema handler returns, in its order
LegacyListedTools ==
  <<"list_datasets", "list_tables", "get_table_schema", "execute_query",
    "get_query_results">>

\* the case labels of the CallToolRequestSchema handler
LegacyCases ==
  {"list_datasets", "list_tables", "get_table_schema", "execute_query",
   "get_query_results"}

\* the key each method insists on: if (!datasetId) throw ...
LegacyRequiredKey(name) ==
  CASE name = "execute_query"     -> "query"
    [] name = "get_query_results" -> "jobId"
    [] OTHER                      -> "datasetId"

\* the try block of the CallToolRequestSchema handler up to its first await
LegacyToolCallTry(name, args) ==
  IF name \notin LegacyCases THEN Throws(Err(<<"Unknown tool: ", name>>))
  ELSE IF name # "list_datasets" /\ args.required = "missing"
       THEN Throws(Err(<<LegacyRequiredKey(name), " is required">>))
  ELSE Awaits

\* the catch block of the CallToolRequestSchema handler
LegacyCaughtAs(error) == Content(<<"Error: ">> \o ErrorMessage(error))

LegacyCaught(error) == ErrorContent(<<"Error: ">> \o ErrorMessage(error))

LegacyCallTool(request) ==
  LET step == LegacyToolCallTry(request.name, request.args) IN
  IF step.kind = "throw"
  THEN RespondError(ResultEnvelope(request, LegacyCaught(step.error)))
  ELSE Suspend

\* listDatasets of the older Server variant when getDatasets succeeds: the
\* text names the project and the credentials, then "Found n datasets:", then
\* the JSON of the list
listDatasets(datasets, cfg) ==
  JsonContent(<<"Project: ", cfg.projectId, "\nBigQuery Client Project: ",
                cfg.projectId, "\nCredentials: ",
                IF Not(cfg.keyFilename) THEN "default" ELSE cfg.keyFilename,
                "\n\nFound ", ToString(Len(datasets)), " datasets:\n\n">>,
              LegacyDatasetList(datasets))

\* from the settled vendor promise on: listDatasets has its own catch block,
\* which returns plain text content; the other methods let the error reach
\* the handler's catch block
LegacyCallToolResume(request, outcome, cfg) ==
  IF outcome.ok THEN
    (IF request.name = "list_datasets"
     THEN ResultEnvelope(request, listDatasets(outcome.data, cfg))
     ELSE IF request.name = "execute_query"
     THEN ResultEnvelope(request,
            Content(LegacyQueryPayload(request.args.dryRun = "true")))
     ELSE ResultEnvelope(request, Content(<<"Found: ">> \o Json(request.name))))
  ELSE IF request.name = "list_datasets"
       THEN ResultEnvelope(request,
              Content(<<"Error listing datasets for project: ">> \o
                      ErrorMessage(outcome.error)))
  ELSE ResultEnvelope(request, LegacyCaught(outcome.error))

(* ---------------------------------------------------------------------- *)
(* Requests a client can send                                              *)
(* ---------------------------------------------------------------------- *)

NoRequest == [method |-> "none", id |-> 0, name |-> "none", args |-> NoArgs]

\* the clients of a run:
\*   "concurrent"  keep up to MaxReq requests outstanding and choose their
\*                 arguments by validity only;
\*   "arguments"   send one request at a time, with every value of the
\*                 optional arguments, to a vendor that answers in every way;
\*   "repeat"      send one request at a time; one exchange is remembered;
\*   "startup"     talk to a BigQuery server started in any environment;
\*   "launch"      talk to a server started with any command line
Scenarios == {"concurrent", "arguments", "repeat", "startup", "launch"}

\* the tools that take a result count (limit, or maxResults)
TakesLimit(svc, name) ==
  CASE svc = "meta_ads"   -> name \in {"list_campaigns", "list_adsets", "list_ads"}
    [] svc = "google_ads" -> name \in {"list_campaigns", "execute_gaql_query"}
    [] OTHER              -> name \in {"execute_query", "get_query_results"}

\* the tools that take a query text
TakesQuery(svc, name) == name \in {"execute_query", "execute_gaql_query"}

SelectOne == <<"S", "E", "L", "E", "C", "T", " ", "1">>

\* the pieces the query texts of the clients are put together from
QueryPieces ==
  {<<" ">>, SelectOne, <<" ", "L", "I", "M", "I", "T", " ", "5">>,
   <<"l", "i", "m", "i", "t">>, <<" ", "L", "i", "m", "I", "t", " ">>,
   <<" ", "u", "n", "l", "i", "m", "i", "t", "e", "d">>}

RECURSIVE QueryTexts(_)
QueryTexts(n) ==
  IF n = 0 THEN {<<>>}
  ELSE LET shorter == QueryTexts(n - 1) IN
       shorter \cup {q \o p : q \in shorter, p \in QueryPieces}

\* the query texts of the clients; <<>> is no text at all
Queries == QueryTexts(MaxPieces)

Limits(sc) == IF sc = "arguments" THEN {Omitted, Given(0), Given(10)} ELSE {Omitted}

Periods(sc, svc, name) ==
  IF sc = "arguments" /\ svc = "meta_ads" /\ name = "get_insights"
  THEN {Undefined, "set"} ELSE {Undefined}

AnyArgs(sc, svc, name) ==
  {[required |-> r, accountId |-> a, limit |-> l, datePreset |-> d, timeRange |-> t,
    query |-> q, dryRun |-> f] :
     r \in (IF HasRequired(svc, name) THEN RequiredVals ELSE {"ok"}),
     a \in (IF svc = "meta_ads" /\ name \in {"get_account_info", "list_campaigns"}
            THEN {Undefined, "account of the caller"} ELSE {Undefined}),
     l \in (IF TakesLimit(svc, name) THEN Limits(sc) ELSE {Omitted}),
     d \in Periods(sc, svc, name),
     t \in Periods(sc, svc, name),
     q \in (IF ~TakesQuery(svc, name) THEN {<<>>}
            ELSE IF sc = "arguments" THEN Queries
            ELSE {<<>>, SelectOne}),
     f \in (IF sc = "arguments" /\ name = "execute_query"
            THEN {Undefined, "true", "false"} ELSE {Undefined})}

\* the query text is the required key of a query tool
ArgsFor(sc, svc, name) ==
  {a \in AnyArgs(sc, svc, name) :
     TakesQuery(svc, name) => (a.required = "missing" <=> a.query = <<>>)}

\* the methods a client sends: over HTTP the POST /mcp handler sees all of
\* them, over stdio the SDK passes tools/list and tools/call to this code
Methods(t) ==
  IF t = "http" THEN {"initialize", "tools/list", "tools/call", "resources/list"}
  ELSE {"tools/list", "tools/call"}

\* the requests a client can send as its n-th request
Requests(svc, t, n) ==
  {[method |-> m, id |-> RequestId(n), name |-> "none", args |-> NoArgs] :
     m \in Methods(t) \ {"tools/call"}}
  \cup
  UNION {{[method |-> "tools/call", id |-> RequestId(n), name |-> nm, args |-> a] :
            a \in ArgsFor(scenario, svc, nm)} :
         nm \in Range(RegisteredTools(svc)) \cup {"no_such_tool"}}

\* the failures the vendor SDKs reject with
VendorErrors(sc) ==
  {Err(<<"vendor failure">>), PlainObject}
  \cup (IF sc = "arguments"
        THEN {GoogleAdsFailure(<<<<"bad field">>, <<>>, <<"bad resource">>>>),
              ObjectWithMessage(<<"quota exceeded">>),
              ApiError(<<"api failure">>, <<<<"invalid query">>, <<"rate limited">>>>)}
        ELSE {})

\* the lists of datasets getDatasets can answer with
DatasetLists == ListsOf(Datasets, MaxData)

\* how the vendor call of a request can settle
OutcomesFor(sc, svc, request) ==
  {VendorFails(e) : e \in VendorErrors(sc)}
  \cup (IF sc = "arguments" /\ request.name = "list_datasets"
        THEN {VendorData(d) : d \in DatasetLists}
        ELSE {VendorOk})


(* ---------------------------------------------------------------------- *)
(* Actions                                                                 *)
(* ---------------------------------------------------------------------- *)

NoConfig == [projectId |-> Undefined]

\* a slot holds one request: the responses written for it so far, the vendor
\* SDK calls made for it, whether a failure was raised while it was handled,
\* whether an error escaped the handler, and how its vendor promise settled
NotSettled == [ok |-> FALSE, error |-> NoThrow, data |-> <<>>]

Idle ==
  [pc |-> "idle", request |-> NoRequest, response |-> NoEnvelope, written |-> 0,
   calls |-> <<>>, raised |-> FALSE, fault |-> FALSE, outcome |-> NotSettled]

\* res.write(...); res.end(): the request was answered before any await
Answered(request, d) ==
  [pc |-> "done", request |-> request, response |-> d.envelope, written |-> 1,
   calls |-> <<>>, raised |-> d.raised, fault |-> d.fault, outcome |-> NotSettled]

\* the handler called the vendor SDK and is suspended on its promise
Suspended(svc, request, cfg) ==
  [pc |-> "awaiting", request |-> request, response |-> NoEnvelope, written |-> 0,
   calls |-> <<VendorCall(svc, request, cfg)>>, raised |-> FALSE, fault |-> FALSE,
   outcome |-> NotSettled]

\* res.write(...); res.end() after the vendor promise settled
AnsweredLate(slot, envelope, outcome) ==
  [slot EXCEPT !.pc = "done", !.response = envelope, !.written = @ + 1,
               !.raised = ~outcome.ok, !.outcome = outcome]

\* the slot of a handler that ran to its end: res.end() closes the exchange
\* on every path
ReleasedAs(slot, envelope) ==
  IF envelope.error.present THEN [slot EXCEPT !.pc = "hung"] ELSE Idle

Released(slot, envelope) == Idle

\* the words the command lines of the model are put together from
Words ==
  {TransportFlag, TransportFlag \o <<"=">> \o HttpWord,
   TransportFlag \o <<"=">> \o StdioWord, TransportFlag \o <<"=", "s", "s", "e">>,
   HttpWord, StdioWord, PortFlag \o <<"=", "8", "0", "8", "0">>}

\* the command lines a process is started with: any list of words in the
\* launch scenario, else none or --transport=http; the one argument of the
\* older BigQuery server is a file name, env.argv2
ArgLists(sc, svc) ==
  IF svc = "bigquery_legacy" THEN {<<>>}
  ELSE IF sc = "launch" THEN ListsOf(Words, MaxArgs)
  ELSE {<<>>, <<TransportFlag \o <<"=">> \o HttpWord>>}

\* the environments the model starts from: any environment of the two Ads
\* services; for BigQuery every variable set, or none
Complete(svc, e) ==
  \A v \in EnvVars(svc) :
     e[v] = (IF "set" \in ValsOf(svc, v) THEN "set"
             ELSE IF v = "GOOGLE_APPLICATION_CREDENTIALS" THEN "keyfile"
             ELSE "absent")

InitEnvs(svc) ==
  {e \in Envs(svc) :
     \/ Complete(svc, e)
     \/ \A v \in EnvVars(svc) : e[v] = "absent"
     \/ svc \in {"google_ads", "meta_ads"}}

Init ==
  /\ service \in Services
  /\ env \in InitEnvs(service)
  /\ argv \in ArgLists("concurrent", service)
  /\ phase = "init"
  /\ transport = "none"
  /\ config = NoConfig
  /\ client = "null"
  /\ inits = 0
  /\ fatal = NoFatal
  /\ reqs = [s \in Slots |-> Idle]
  /\ last = Idle
  /\ listed = <<>>
  /\ scenario = "concurrent"
  /\ kept = Idle

\* main(): the constructor succeeds and run() starts one transport
MainRuns(t) ==
  /\ phase = "init"
  /\ Construct(service, env).ok
  /\ t = run(service, argv)
  /\ phase' = "serving"
  /\ transport' = t
  /\ config' = Construct(service, env).config
  /\ client' = Construct(service, env).client
  /\ inits' = 1
  /\ UNCHANGED <<service, env, argv, fatal, reqs, last, listed, scenario, kept>>

\* main(): the constructor throws and the error is printed, or run() comes
\* to the default case of its switch; process.exit(1)
MainExits ==
  /\ phase = "init"
  /\ ~Construct(service, env).ok \/ run(service, argv) = "exit"
  /\ phase' = "exited"
  /\ fatal' = IF Construct(service, env).ok THEN UnknownMode
              ELSE Construct(service, env).fatal
  /\ config' = Construct(service, env).config
  /\ inits' = IF Construct(service, env).ok THEN 1 ELSE 0
  /\ UNCHANGED <<service, env, argv, transport, client, reqs, last, listed, scenario, kept>>

\* the first tools/list response of the process is remembered
Listed(request, d) ==
  IF listed = <<>> /\ request.method = "tools/list" /\ ~d.await
  THEN d.envelope.result.tools
  ELSE listed

\* a request takes the first free slot
NextSlot(s) ==
  /\ scenario # "concurrent" => s = 1
  /\ reqs[s].pc = "idle"
  /\ \A r \in Slots : r < s => reqs[r].pc # "idle"

\* the process serves on the transport, the event loop is between two turns
\* and the next request goes to slot s
Listening(t, s) ==
  /\ phase = "serving"
  /\ transport = t
  /\ last = Idle
  /\ NextSlot(s)

RunHTTP(svc, request, cl, cfg) ==
  IF svc = "meta_ads" THEN BaseRunHTTP(request, cl, cfg)
  ELSE BigQueryRunHTTP(request, cl)

\* app.post("/mcp", ...) runs up to its first pending await
HttpPost(s, request) ==
  /\ Listening("http", s)
  /\ LET d == RunHTTP(service, request, client, config) IN
     IF d.await
     THEN /\ reqs' = [reqs EXCEPT ![s] = Suspended(service, request, config)]
          /\ UNCHANGED last
     ELSE /\ last' = Answered(request, d)
          /\ UNCHANGED reqs
  /\ listed' = Listed(request, RunHTTP(service, request, client, config))
  /\ UNCHANGED <<service, env, argv, inits, phase, transport, config, client, fatal, scenario, kept>>

\* tools/list over stdio: the registered tools, or the older server's list
StdioListTools(svc, request) ==
  IF svc = "bigquery_legacy"
  THEN ResultEnvelope(request, ToolsResult(LegacyListedTools))
  ELSE ResultEnvelope(request, ToolsResult(RegisteredTools(svc)))

RunStdio(svc, request, e, cl, cfg, shape) ==
  IF request.method = "tools/list" THEN Respond(StdioListTools(svc, request))
  ELSE IF svc = "bigquery_legacy" THEN LegacyCallTool(request)
  ELSE McpCallTool(svc, request, e, cl, cfg, shape)

\* a message on stdin is handled up to its first pending await
StdioMessage(s, request, shape) ==
  /\ Listening("stdio", s)
  /\ shape \in SdkShapes
  /\ LET d    == RunStdio(service, request, env, client, config, shape)
         seen == IF ReachesHandler(service, request)
                 THEN FieldsSeenBy(service, request.name, env, client, config)
                 ELSE Built(config, client)
     IN /\ IF d.await
           THEN /\ reqs' = [reqs EXCEPT ![s] = Suspended(service, request, seen.config)]
                /\ UNCHANGED last
           ELSE /\ last' = Answered(request, d)
                /\ UNCHANGED reqs
        /\ config' = seen.config
        /\ client' = seen.client
        /\ listed' = Listed(request, d)
        /\ inits' = IF /\ ReachesHandler(service, request) /\ service = "meta_ads"
                         /\ Reinitializes(request.name, client)
                      THEN inits + 1 ELSE inits
  /\ UNCHANGED <<service, env, argv, phase, transport, fatal, scenario, kept>>

Resume(svc, t, request, outcome, cfg) ==
  CASE t = "http" /\ svc = "meta_ads" -> handleToolCallResume(request, outcome)
    [] t = "http" /\ svc # "meta_ads" -> BigQueryToolCallResume(request, outcome)
    [] t # "http" /\ svc = "bigquery_legacy" ->
         LegacyCallToolResume(request, outcome, cfg)
    [] OTHER -> ResultEnvelope(request, StdioToolResume(svc, request, outcome))

\* the vendor promise of a suspended handler settles and the handler runs on
\* to its response, or to the second vendor promise it awaits
VendorSettles(s, outcome) ==
  /\ phase = "serving"
  /\ last = Idle
  /\ reqs[s].pc = "awaiting"
  /\ LET envelope == Resume(service, transport, reqs[s].request, outcome, config) IN
       IF outcome.ok /\ CallsAgain(service, reqs[s].calls)
       THEN /\ reqs' = [reqs EXCEPT
                          ![s].calls = Append(@, SecondCall(service, @[1]))]
            /\ UNCHANGED last
       ELSE /\ last' = AnsweredLate(reqs[s], envelope, outcome)
            /\ reqs' = [reqs EXCEPT ![s] = Released(reqs[s], envelope)]
  /\ UNCHANGED <<service, env, argv, inits, phase, transport, config, client, fatal, listed,
                 scenario, kept>>

\* the handler that wrote a response returns: the turn of the event loop is
\* over and the loop takes its next event
Keeps(x) ==
  IF scenario = "repeat" /\ kept = Idle /\ x.request.method = "tools/call"
  THEN {kept, x} ELSE {kept}

TurnEnds ==
  /\ last.pc = "done"
  /\ last' = Idle
  /\ kept' \in Keeps(last)
  /\ UNCHANGED <<service, env, argv, inits, phase, transport, config, client, fatal, reqs, listed,
                 scenario>>

Next ==
  \/ \E t \in {"stdio", "http"} : MainRuns(t)
  \/ MainExits
  \/ \E s \in Slots :
        /\ Listening("http", s)
        /\ \E request \in Requests(service, "http", s) : HttpPost(s, request)
  \/ \E s \in Slots, shape \in SdkShapes :
        /\ Listening("stdio", s)
        /\ \E request \in Requests(service, "stdio", s) : StdioMessage(s, request, shape)
  \/ \E s \in Slots :
        /\ reqs[s].pc = "awaiting"
        /\ \E outcome \in OutcomesFor(scenario, service, reqs[s].request) :
              VendorSettles(s, outcome)
  \/ TurnEnds

Spec == Init /\ [][Next]_vars

\* a run of another scenario: the process starts in one of the given
\* environments
Starts(sc, svcs) ==
  /\ service \in svcs
  /\ env \in (IF sc = "startup" THEN Envs(service)
              ELSE {e \in Envs(service) :
                      \/ Complete(service, e)
                      \/ \A v \in EnvVars(service) : e[v] = "absent"})
  /\ argv \in ArgLists(sc, service)
  /\ phase = "init"
  /\ transport = "none"
  /\ config = NoConfig
  /\ client = "null"
  /\ inits = 0
  /\ fatal = NoFatal
  /\ reqs = [s \in Slots |-> Idle]
  /\ last = Idle
  /\ listed = <<>>
  /\ scenario = sc
  /\ kept = Idle

ArgumentsInit == Starts("arguments", Services)

ArgumentsSpec == ArgumentsInit /\ [][Next]_vars

RepeatInit == Starts("repeat", Services)

RepeatSpec == RepeatInit /\ [][Next]_vars

StartupInit == Starts("startup", {"bigquery", "bigquery_legacy"})

StartupSpec == StartupInit /\ [][Next]_vars

LaunchInit == Starts("launch", Services \ {"bigquery_legacy"})

LaunchSpec == LaunchInit /\ [][Next]_vars

\* a handler that runs returns; a vendor promise that is pending settles, and
\* the event loop, which takes its events in their order, comes to run the
\* suspended handler however many other requests arrive
FairSpec ==
  /\ Spec
  /\ WF_vars(TurnEnds)
  /\ \A s \in Slots : SF_vars(\E outcome \in VendorOutcomes : VendorSettles(s, outcome))

(* ---------------------------------------------------------------------- *)
(* Properties                                                              *)
(* ---------------------------------------------------------------------- *)

\* every exchange the process holds: the one completed last and the ones
\* whose handlers are suspended
Exchanges == {last} \cup {reqs[s] : s \in Slots}

IsCall(x) == x.request.method = "tools/call"

Completed(x) == x.pc = "done"

\* the response reports an error: a JSON-RPC error, or a result flagged isError
IsErr(envelope) ==
  envelope.error.present \/ (envelope.result.present /\ envelope.result.isError)

ExactlyOne(envelope) ==
  \/ envelope.error.present /\ ~envelope.result.present
  \/ ~envelope.error.present /\ envelope.result.present

Registered(svc, t) ==
  CASE t = "http" /\ svc = "meta_ads" -> MetaAdsCases
    [] t = "http" /\ svc = "bigquery" -> BigQueryCases
    [] svc = "bigquery_legacy"        -> LegacyCases
    [] OTHER                          -> Range(RegisteredTools(svc))

\* C1: on HTTP every request answered has had exactly one response written,
\* whose id is the id of the request, and a request still being handled has
\* had none
C1_OneResponseWithRequestId ==
  transport = "http" =>
    \A x \in Exchanges :
       /\ Completed(x) => x.written = 1 /\ x.response.id = x.request.id /\ ~x.fault
       /\ x.pc = "awaiting" => x.written = 0

C1_Witness ==
  /\ transport = "http"
  /\ Completed(last) /\ IsCall(last)
  /\ last.request.id = 2 /\ last.response.id = 2
  /\ last.response.error.present
  /\ reqs[1].pc = "awaiting"

C3_InvalidArgumentsNoVendorCall ==
  \A x \in Exchanges :
     (IsCall(x) /\ SchemaFails(service, x.request.name, x.request.args))
       => /\ x.calls = <<>>
          /\ Completed(x) => IsErr(x.response)

\* C4: a failure raised while a tool handler runs ends in a response that
\* reports an error, and never escapes the dispatcher
C4_FailureBecomesErr ==
  (Completed(last) /\ IsCall(last) /\ last.raised)
    => IsErr(last.response) /\ ~last.fault

\* C5: the envelope answering a tools/call has exactly one of result and error
C5_ExactlyOneOfResultAndError ==
  (Completed(last) /\ IsCall(last)) => ExactlyOne(last.response)

C5_Witness ==
  /\ transport = "http"
  /\ Completed(last) /\ IsCall(last)
  /\ ~last.outcome.ok /\ last.calls # <<>>
  /\ last.response.error.present /\ ~last.response.result.present

Other(t) == IF t = "http" THEN "stdio" ELSE "http"

OutcomeKind(envelope) == IF IsErr(envelope) THEN "Err" ELSE "Ok"

\* C6: for the tool, arguments and vendor outcome of a call that reached the
\* vendor, the other transport of the service yields the same outcome kind,
\* and the same content when the vendor call succeeded
C6_SameOutcomeOnBothTransports ==
  (/\ Completed(last) /\ IsCall(last) /\ last.calls # <<>>
   /\ Transports(service) = {"stdio", "http"})
    => LET other == Resume(service, Other(transport), last.request, last.outcome, config) IN
       /\ OutcomeKind(last.response) = OutcomeKind(other)
       /\ last.outcome.ok => last.response.result.kind = other.result.kind
       /\ ~last.outcome.ok => OutcomeKind(last.response) = "Err"

\* the exchange completed last ended in a per-call error
ErrorSeen == Completed(last) /\ (IsErr(last.response) \/ last.raised)

\* C7: a process that serves keeps serving, whatever errors its requests end
\* in: no handler stays suspended for ever, and the step that ends a handler
\* writes the one response of its request, under its id, and frees the
\* handler, also when that response or the one before it is an error; only a
\* process whose constructor threw has exited, and it has served nothing
C7_KeepsServingAfterError ==
  /\ [][phase = "serving" => phase' = "serving"]_vars
  /\ [](phase = "exited" => fatal.thrown /\ Exchanges = {Idle})
  /\ [](ErrorSeen => phase = "serving")
  /\ \A s \in Slots : []<>(reqs[s].pc # "awaiting")
  /\ [][\A s \in Slots :
          (reqs[s].pc = "awaiting" /\ reqs'[s].pc # "awaiting")
            => /\ Completed(last') /\ last'.request = reqs[s].request
               /\ last'.response.id = RequestId(s) /\ last'.written = 1
               /\ reqs'[s].pc = "idle"]_vars

C7_Witness ==
  /\ phase = "serving"
  /\ ErrorSeen /\ last.request.id = RequestId(1) /\ last.calls # <<>>
  /\ reqs[1].pc = "idle"
  /\ reqs[2].pc = "awaiting"

RequiredCredentials(svc) ==
  CASE svc = "google_ads" ->
         {"GOOGLE_ADS_CUSTOMER_ID", "GOOGLE_ADS_DEVELOPER_TOKEN", "GOOGLE_ADS_CLIENT_ID",
          "GOOGLE_ADS_CLIENT_SECRET", "GOOGLE_ADS_REFRESH_TOKEN"}
    [] svc = "meta_ads" ->
         {"META_ADS_ACCESS_TOKEN", "META_ADS_APP_ID", "META_ADS_APP_SECRET"}
    [] OTHER -> {}

MissingCredentials ==
  {v \in RequiredCredentials(service) : env[v] \in {"absent", "empty"}}

\* C8: a Google Ads or Meta Ads process started without one of its required
\* credentials fails in its constructor, never serves, and exits with a
\* message that lists each missing variable once and no other variable
C8_MissingCredentialsStopStartup ==
  service \in {"google_ads", "meta_ads"} =>
    /\ MissingCredentials # {} =>
         /\ ~Construct(service, env).ok
         /\ phase # "serving"
         /\ Exchanges = {Idle}
    /\ phase = "exited" =>
         /\ fatal.thrown
         /\ MissingCredentials # {}
         /\ Range(fatal.vars) = MissingCredentials
         /\ Len(fatal.vars) = Cardinality(MissingCredentials)

C8_Witness ==
  /\ service = "google_ads"
  /\ phase = "exited"
  /\ env["GOOGLE_ADS_CUSTOMER_ID"] = "absent"
  /\ env["GOOGLE_ADS_REFRESH_TOKEN"] = "empty"
  /\ fatal.vars = <<"GOOGLE_ADS_CUSTOMER_ID", "GOOGLE_ADS_REFRESH_TOKEN">>

NoDuplicates(seq) == \A i, j \in 1..Len(seq) : seq[i] = seq[j] => i = j

\* C9: the tools of a tools/list response are at least one, no name twice,
\* and the same names in the same order as in the first tools/list response
\* of the process
C9_ToolListIsStable ==
  (Completed(last) /\ last.request.method = "tools/list")
    => /\ last.response.result.present
       /\ last.response.result.kind = "tools"
       /\ last.response.result.tools # <<>>
       /\ NoDuplicates(last.response.result.tools)
       /\ last.response.result.tools = listed

C9_Witness ==
  /\ service = "bigquery" /\ transport = "http"
  /\ Completed(last) /\ last.request.method = "tools/list"
  /\ last.request.id = RequestId(2)
  /\ reqs[1].pc = "awaiting"
  /\ last.response.result.tools = BigQueryListedTools

\* C10: over HTTP a tools/call that failed is answered with error code -32000
\* and a message that is a string, a request for any method other than
\* initialize, tools/list and tools/call with -32601 "Method not found", and
\* no envelope carries another code
C10_HttpErrorCodes ==
  (transport = "http" /\ Completed(last)) =>
    /\ (IsCall(last) /\ last.raised) =>
         /\ last.response.error.present
         /\ last.response.error.code = -32000
         /\ last.response.error.message # <<>>
    /\ last.request.method \notin {"initialize", "tools/list", "tools/call"} =>
         /\ last.response.error.present
         /\ last.response.error.code = -32601
         /\ last.response.error.message = <<"Method not found">>
    /\ last.response.error.present =>
         \/ last.response.error.code = -32000 /\ IsCall(last)
         \/ last.response.error.code = -32601 /\ ~IsCall(last)

C10_Witness ==
  /\ transport = "http"
  /\ Completed(last) /\ IsCall(last)
  /\ last.outcome = VendorFails(PlainObject)
  /\ last.response.error.code = -32000
  /\ last.response.error.message = <<"[object Object]">>

\* the exchanges whose handler called the vendor SDK
VendorCalls == {x \in Exchanges : IsCall(x) /\ x.calls # <<>>}

\* the default result count the tool descriptions document
DocumentedDefault(svc, name) ==
  CASE svc = "meta_ads" -> 25
    [] svc = "google_ads" /\ name = "list_campaigns" -> 50
    [] OTHER -> 100

IsListOrQuery(name) ==
  name \in {"list_datasets", "list_tables", "list_customers", "list_campaigns",
            "list_adsets", "list_ads", "execute_query", "execute_gaql_query",
            "get_query_results"}

\* the query text as execute_gaql_query looks at it holds "limit"
MentionsLimit(x) ==
  /\ x.request.name = "execute_gaql_query"
  /\ Includes(ToLowerCase(Trim(x.request.args.query)), LimitWord)

C12_InsightsDefaultToLifetime ==
  \A x \in VendorCalls :
     (/\ service = "meta_ads" /\ x.request.name = "get_insights"
      /\ Not(x.request.args.datePreset) /\ Not(x.request.args.timeRange))
       => /\ x.calls[1].params.date_preset = "lifetime"
          /\ x.calls[1].params.time_range = Undefined

C12_Witness ==
  /\ service = "meta_ads"
  /\ reqs[1].pc = "awaiting"
  /\ reqs[1].request.name = "get_insights"
  /\ reqs[1].request.args.required = "ok"
  /\ reqs[1].request.args.datePreset = Undefined
  /\ reqs[1].request.args.timeRange = Undefined
  /\ reqs[1].calls[1].params.date_preset = "lifetime"

\* the vendor calls of the two query tools whose caller's text holds "limit"
\* in some letter case
QueryCallsWithLimit ==
  {x \in VendorCalls :
     /\ x.request.name \in {"execute_query", "execute_gaql_query"}
     /\ Includes(ToLowerCase(x.request.args.query), LimitWord)}

\* C13 as stated: when the query text of execute_query or execute_gaql_query
\* holds "limit" in any letter case, the text forwarded to the vendor is the
\* caller's text character for character and no bound is appended to it
C13_TextWithLimitForwardedVerbatim ==
  \A x \in QueryCallsWithLimit :
     /\ x.calls[1].params.query = x.request.args.query
     /\ x.request.name = "execute_gaql_query" => ~x.calls[1].params.limit.given

\* C13 amended: when the query text holds "limit" in any letter case, no bound
\* is appended to it; BigQuery execute_query forwards the caller's text
\* character for character, Google Ads execute_gaql_query forwards it with
\* the white space at its two ends removed
C13_TextWithLimitGetsNoBound ==
  \A x \in QueryCallsWithLimit :
     /\ service \in {"bigquery", "bigquery_legacy"}
          => x.calls[1].params.query = x.request.args.query
     /\ service = "google_ads"
          => /\ x.calls[1].params.query = Trim(x.request.args.query)
             /\ ~x.calls[1].params.limit.given

C13_Witness ==
  /\ service = "google_ads"
  /\ reqs[1].pc = "awaiting"
  /\ reqs[1].request.name = "execute_gaql_query"
  /\ reqs[1].request.args.query = <<" ", "L", "I", "M", "I", "T", " ", "5">>
  /\ reqs[1].calls[1].params.query = <<"L", "I", "M", "I", "T", " ", "5">>
  /\ ~reqs[1].calls[1].params.limit.given

\* the exchange completed last is a list_datasets call the vendor answered
ListedDatasets ==
  /\ Completed(last) /\ IsCall(last)
  /\ last.request.name = "list_datasets"
  /\ last.calls # <<>> /\ last.outcome.ok

\* the array spells out the datasets in their order, each with its id
SameDatasets(array, datasets) ==
  /\ Len(array) = Len(datasets)
  /\ \A i \in 1..Len(datasets) : array[i].id = datasets[i].id /\ "id" \in array[i].keys

RepeatsKept ==
  /\ kept # Idle
  /\ Completed(last) /\ IsCall(last)
  /\ last.request.name \in Registered(service, transport)
  /\ ~SchemaFails(service, last.request.name, last.request.args)
  /\ last.request.name = kept.request.name
  /\ last.request.args = kept.request.args
  /\ (last.calls # <<>> /\ kept.calls # <<>>) => last.outcome = kept.outcome

\* C15: a tool called again with the arguments of an earlier call, the vendor
\* answering alike, yields the payload of the earlier call, whatever requests
\* were served before or in between
C15_RepeatedCallSamePayload ==
  RepeatsKept =>
    /\ last.response.result = kept.response.result
    /\ last.response.error = kept.response.error

\* C16: while the process serves, the configuration and the client handle
\* are those the constructor left, whatever requests were handled and
\* however they ended
C16_RequestsLeaveConfigAndClient ==
  phase = "serving" =>
    /\ config = Construct(service, env).config
    /\ client = Construct(service, env).client

EndsWith(seq, suffix) ==
  /\ Len(suffix) <= Len(seq)
  /\ SubSeq(seq, Len(seq) - Len(suffix) + 1, Len(seq)) = suffix

\* the response tells how the vendor call of its own request settled: the
\* data of the tool called, or the message of the rejection
TellsOwnOutcome(x) ==
  LET result == x.response.result
      error  == x.response.error IN
  IF x.outcome.ok
  THEN /\ result.present /\ ~error.present
       /\ IF x.request.name = "list_datasets" /\ service \in {"bigquery", "bigquery_legacy"}
          THEN SameDatasets(result.json, x.outcome.data)
          ELSE IF x.request.name = "execute_query"
          THEN result.text = (IF service = "bigquery_legacy"
                              THEN LegacyQueryPayload(x.request.args.dryRun = "true")
                              ELSE QueryPayload(x.request.args.dryRun = "true"))
          ELSE EndsWith(result.text, Json(x.request.name))
  ELSE EndsWith(IF error.present THEN error.message ELSE result.text,
                ErrorMessage(x.outcome.error))

VendorRejected ==
  /\ Completed(last) /\ IsCall(last)
  /\ last.calls # <<>> /\ ~last.outcome.ok

\* the message the response to the exchange completed last carries
ReportedMessage ==
  IF last.response.error.present THEN last.response.error.message
  ELSE last.response.result.text

\* the failure's own message, or its string form when it has none
OwnMessage(error) == IF error.message # <<>> THEN error.message ELSE error.string

DocumentedLocation == IF env["BQ_LOCATION"] = "set" THEN "set" ELSE "US"

\* C19: in every variant of the BigQuery service the location of the
\* configuration, with which the client is built, and of every query
\* submitted is the value of BQ_LOCATION when it is set and 'US' otherwise
C19_LocationFromEnvironment ==
  (service \in {"bigquery", "bigquery_legacy"} /\ phase = "serving")
    => /\ config.location = DocumentedLocation
       /\ \A x \in VendorCalls :
            x.request.name = "execute_query"
              => x.calls[1].params.location = DocumentedLocation

\* the sources of the project id in their documented order: the files
FileSources == <<"argv2", "GOOGLE_APPLICATION_CREDENTIALS">>

\* the files that can be read and parsed
YieldingFiles == {i \in 1..Len(FileSources) : env[FileSources[i]] = "keyfile"}

\* the project variables of the documented third source that are set
YieldingVars == {v \in {"GOOGLE_CLOUD_PROJECT", "BQ_PROJECT_ID"} : env[v] = "set"}

\* C20: the BigQuery configuration comes from the file named on the command
\* line, else from the file GOOGLE_APPLICATION_CREDENTIALS names, else from
\* GOOGLE_CLOUD_PROJECT or BQ_PROJECT_ID; a file that yields a project id wins
\* over the variables, a file that cannot be read or parsed passes to the next
\* source, and startup fails exactly when no source yields a project id
C20_ConfigurationPriority ==
  (service \in {"bigquery", "bigquery_legacy"} /\ phase # "init")
    => /\ phase = "exited" <=> (YieldingFiles = {} /\ YieldingVars = {})
       /\ (phase = "serving" /\ YieldingFiles # {})
            => /\ config.projectId = "project_id of key file"
               /\ config.keyFilename =
                    FileSources[CHOOSE i \in YieldingFiles :
                                  \A j \in YieldingFiles : i <= j]
       /\ (phase = "serving" /\ YieldingFiles = {})
            => config.projectId \in YieldingVars

(* ---------------------------------------------------------------------- *)
(* Transports, dry runs and lazy initialization                            *)
(* ---------------------------------------------------------------------- *)

\* the command lines that ask for the HTTP transport by name
AsksForHttp ==
  {<<TransportFlag \o <<"=">> \o HttpWord>>, <<TransportFlag, HttpWord>>}

\* C21: a BigQuery or Google Ads server that serves was started on stdio
\* when it got no argument, and on HTTP (POST /mcp, GET /health) when its
\* command line asked for the transport http
C21_BothServersBothTransports ==
  (service \in {"bigquery", "google_ads"} /\ phase = "serving") =>
     /\ argv = <<>> => transport = "stdio"
     /\ argv \in AsksForHttp => transport = "http"

\* the i-th argument is a --transport argument that names http, after its
\* "=" or by the argument that follows it
NamesHttp(args, i) ==
  /\ StartsWith(args[i], TransportFlag)
  /\ IF Includes(args[i], <<"=">>) THEN AfterEquals(args[i]) = HttpWord
     ELSE i < Len(args) /\ args[i + 1] = HttpWord

NoTransportArgument(args) ==
  \A i \in 1..Len(args) : ~StartsWith(args[i], TransportFlag)

PortOrBareHttp(args) ==
  \E i \in 1..Len(args) : StartsWith(args[i], PortFlag) \/ args[i] = HttpWord

IsFirstTransportArgument(args, i) ==
  /\ StartsWith(args[i], TransportFlag)
  /\ \A j \in 1..(i - 1) : ~StartsWith(args[j], TransportFlag)

\* a server built on BaseMCPServer that got past its constructor
BaseServerRan == service = "meta_ads" /\ phase # "init" /\ Construct(service, env).ok

\* C30 as stated: a BaseMCPServer process serves HTTP exactly when some
\* --transport argument names http, or when there is no --transport argument
\* and there is a --port argument or a bare "http"
C30_HttpWhenSomeTransportNamesIt ==
  BaseServerRan =>
     (transport = "http" <=>
        \/ \E i \in 1..Len(argv) : NamesHttp(argv, i)
        \/ NoTransportArgument(argv) /\ PortOrBareHttp(argv))

\* C30 amended: getTransportMode returns "stdio" or "http" for every
\* argument list, "http" exactly when the first --transport argument names
\* http, or when there is no --transport argument and there is a --port
\* argument or a bare "http"; run() never exits for an unknown mode and
\* starts exactly the transport of that mode
C30_HttpWhenFirstTransportNamesIt ==
  (service = "meta_ads" => getTransportMode(argv) \in {StdioWord, HttpWord})
  /\ (BaseServerRan =>
        /\ phase = "serving"
        /\ fatal = NoFatal
        /\ transport \in {"stdio", "http"}
        /\ transport = "http" <=>
             \/ \E i \in 1..Len(argv) :
                   IsFirstTransportArgument(argv, i) /\ NamesHttp(argv, i)
             \/ NoTransportArgument(argv) /\ PortOrBareHttp(argv))

\* a BaseMCPServer process started with --transport=http --transport=stdio
\* serves HTTP
C30_Witness ==
  /\ service = "meta_ads"
  /\ phase = "serving"
  /\ transport = "http"
  /\ argv = <<TransportFlag \o <<"=">> \o HttpWord, TransportFlag \o <<"=">> \o StdioWord>>

\* the completed execute_query exchanges whose vendor calls all succeeded
QueriesRun ==
  {x \in VendorCalls : x.request.name = "execute_query" /\ x.outcome.ok}

\* the result count the caller asked for, 100 when none was given
AskedMaxResults(x) ==
  IF x.request.args.limit.given THEN x.request.args.limit ELSE Given(100)

\* the dry-run half of C22: an execute_query called with dryRun true submits
\* one query job flagged as dry run, reads the job's metadata, never fetches
\* rows, and answers with a payload that holds no rows
DryRunOnlyValidates ==
  \A x \in QueriesRun :
     x.request.args.dryRun = "true" =>
        /\ Len(x.calls) = 2
        /\ x.calls[1].op[2] = "execute_query" /\ x.calls[1].params.dryRun = "true"
        /\ x.calls[2].op[2] = "job.getMetadata"
        /\ \A i \in 1..Len(x.response.result.text) :
              x.response.result.text[i] # "rows"

\* C22: execute_query with dryRun true only validates (one job flagged dry
\* run, no fetch of rows, a payload without rows); with dryRun false or left
\* out it submits one job not flagged dry run and fetches its rows once, with
\* the caller's maxResults (100 when left out) as the bound
C22_DryRunValidatesElseFetchesBounded ==
  /\ DryRunOnlyValidates
  /\ \A x \in QueriesRun :
        x.request.args.dryRun # "true" =>
           /\ Len(x.calls) = 2
           /\ x.calls[1].op[2] = "execute_query" /\ x.calls[1].params.dryRun = "false"
           /\ x.calls[2].op[2] = "job.getQueryResults"
           /\ x.calls[2].params.limit = AskedMaxResults(x)

\* the exchange was answered with "Meta Ads API not initialized"
SaysNotInitialized(x) ==
  /\ Completed(x) /\ IsCall(x)
  /\ \/ x.response.error.message = NotInitialized.message
     \/ x.response.result.text = NotInitialized.message

\* C23: a Meta Ads server that serves holds a client handle (api is not
\* null) and the configuration read from the environment, and answers no
\* tool call with "Meta Ads API not initialized"
C23_MetaAdsServesInitialized ==
  (service = "meta_ads" /\ phase = "serving") =>
     /\ client # "null"
     /\ config = MetaAdsConfig(env)
     /\ \A x \in Exchanges : ~SaysNotInitialized(x)

\* the other Meta Ads tools, which check the handle and never set it
OtherMetaTools == {"list_campaigns", "get_campaign", "list_adsets", "list_ads", "get_insights"}

\* C24: the Meta Ads client handle is Uninitialized (null) or Ready; the
\* initialization routine makes it Ready exactly once in the life of the
\* process, also when several first calls of get_account_info are in flight;
\* a handle that was made Ready stays Ready; and a tool other than
\* get_account_info that is called while the handle is Uninitialized is
\* answered with an error and calls no vendor
C24_ClientHandleLifecycle ==
  service = "meta_ads" =>
     /\ client \in {"null", "ready"}
     /\ inits <= 1
     /\ phase = "serving" => inits = 1
     /\ inits >= 1 => client = "ready"
     /\ \A x \in Exchanges :
           (/\ IsCall(x) /\ x.request.name \in OtherMetaTools
            /\ client = "null" /\ x.pc # "idle")
              => x.calls = <<>> /\ Completed(x) /\ IsErr(x.response)

(* ---------------------------------------------------------------------- *)
(* Periods, bounds, tool names and accounts                                *)
(* ---------------------------------------------------------------------- *)

\* the vendor calls made for get_insights
InsightCalls ==
  {x \in VendorCalls : service = "meta_ads" /\ x.request.name = "get_insights"}

\* C25: every vendor call of get_insights carries exactly one of date_preset
\* and time_range; a call that supplies both datePreset and timeRange is
\* accepted and sent with the supplied preset and no time_range; a call that
\* supplies timeRange alone is sent with the supplied range and no
\* date_preset
C25_ExactlyOnePeriod ==
  \A x \in InsightCalls :
     LET args == x.request.args
         sent == x.calls[1].params IN
     /\ (sent.date_preset = Undefined) # (sent.time_range = Undefined)
     /\ (args.datePreset # Undefined /\ args.timeRange # Undefined)
          => sent.date_preset = args.datePreset /\ sent.time_range = Undefined
     /\ (args.datePreset = Undefined /\ args.timeRange # Undefined)
          => sent.time_range = args.timeRange /\ sent.date_preset = Undefined

\* a get_insights call that supplied both periods waits on the vendor
C25_Witness ==
  /\ service = "meta_ads"
  /\ reqs[1].pc = "awaiting"
  /\ reqs[1].request.name = "get_insights"
  /\ reqs[1].request.args.datePreset = "set"
  /\ reqs[1].request.args.timeRange = "set"
  /\ reqs[1].calls[1].params.date_preset = "set"
  /\ reqs[1].calls[1].params.time_range = Undefined

\* the vendor calls of execute_gaql_query whose caller's text holds no "limit"
GaqlCallsWithoutLimit ==
  {x \in VendorCalls :
     /\ service = "google_ads" /\ x.request.name = "execute_gaql_query"
     /\ ~Includes(ToLowerCase(x.request.args.query), LimitWord)}

\* C26: for an execute_gaql_query whose text holds no "limit" in any letter
\* case, the text sent is the caller's text, unchanged, followed by
\* " LIMIT n" once, n being the supplied limit, or 100 when none is supplied
C26_CallerTextThenOneBound ==
  \A x \in GaqlCallsWithoutLimit :
     /\ x.calls[1].params.query = x.request.args.query
     /\ x.calls[1].params.limit =
          (IF x.request.args.limit.given THEN x.request.args.limit ELSE Given(100))

\* the part of C26 the code keeps: the text sent is the caller's text without
\* its leading and trailing white space, followed by " LIMIT n" once, n being
\* a supplied limit other than 0, or 100
GaqlTrimmedTextThenOneBound ==
  \A x \in GaqlCallsWithoutLimit :
     /\ x.calls[1].params.query = Trim(x.request.args.query)
     /\ x.calls[1].params.limit =
          (IF x.request.args.limit.given /\ x.request.args.limit.value # 0
           THEN x.request.args.limit ELSE Given(100))

\* the exchange was answered as a call of a tool that does not exist: by the
\* default case of the HTTP dispatcher, or by the SDK's lookup on stdio
SaysUnknownTool(x) ==
  LET unknown  == <<"Unknown tool: ", x.request.name>>
      notFound == <<"Tool not found: ", x.request.name>> IN
  \/ x.response.error.message \in {unknown, notFound}
  \/ x.response.result.text = notFound

\* C27: in Meta Ads and BigQuery, the services with an HTTP dispatcher, the
\* names a tools/list response advertises, on either transport, the names the
\* HTTP dispatcher has a case for and the names registered for stdio are one
\* set; a tools/call of a name of the set is never answered as an unknown
\* tool, and a tools/call of any other name always is
C27_OneSetOfToolNames ==
  service \in {"meta_ads", "bigquery"} =>
     LET names == Range(RegisteredTools(service)) IN
     /\ Registered(service, "http") = names
     /\ (Completed(last) /\ last.request.method = "tools/list")
          => Range(last.response.result.tools) = names
     /\ (Completed(last) /\ IsCall(last))
          => (SaysUnknownTool(last) <=> last.request.name \notin names)

\* the Meta Ads HTTP dispatcher took get_insights to its case, which found
\* the client missing
C27_Witness ==
  /\ service = "meta_ads" /\ transport = "http"
  /\ Completed(last) /\ IsCall(last)
  /\ last.request.name = "get_insights"
  /\ last.response.error.message = NotInitialized.message
  /\ listed = MetaAdsListedTools

\* C28: a vendor call made for a list or query tool whose caller supplied a
\* result count (limit, or maxResults) asks for exactly that count, 0
\* included, in every service and variant
C28_SuppliedCountIsTheBound ==
  \A x \in VendorCalls :
     (/\ TakesLimit(service, x.request.name) /\ ~MentionsLimit(x)
      /\ x.request.args.limit.given)
       => x.calls[1].params.limit = x.request.args.limit

\* what the code keeps of C28: a supplied count other than 0 is the bound
\* asked for; the McpServer variant of BigQuery asks for a supplied 0 as well
SuppliedCountOtherThanZero ==
  \A x \in VendorCalls :
     (/\ TakesLimit(service, x.request.name) /\ ~MentionsLimit(x)
      /\ x.request.args.limit.given
      /\ x.request.args.limit.value # 0 \/ service = "bigquery")
       => x.calls[1].params.limit = x.request.args.limit

\* the Meta Ads exchanges of the two tools that work on an account
AccountCalls ==
  {x \in Exchanges :
     /\ service = "meta_ads" /\ IsCall(x)
     /\ x.request.name \in {"get_account_info", "list_campaigns"}}

\* C29: a vendor call of get_account_info or list_campaigns queries the
\* account the caller supplied, or, when the caller supplied none, the
\* account META_ADS_ACCOUNT_ID configures; a call with neither is answered
\* with an error and makes no vendor call
C29_CallerAccountElseDefault ==
  \A x \in AccountCalls :
     LET supplied   == x.request.args.accountId
         configured == GetEnv(env, "META_ADS_ACCOUNT_ID") IN
     /\ x.calls # <<>> =>
          x.calls[1].params.account =
             (IF supplied # Undefined THEN supplied ELSE configured)
     /\ (supplied = Undefined /\ configured = Undefined /\ x.pc # "idle")
          => x.calls = <<>> /\ Completed(x) /\ IsErr(x.response)

\* what the code keeps of C29: the account queried is the caller's, else the
\* configured one, and a call with neither makes no vendor call and is
\* answered with a text or an error that says what is missing
AccountIsCallersElseDefault ==
  \A x \in AccountCalls :
     LET supplied   == x.request.args.accountId
         configured == GetEnv(env, "META_ADS_ACCOUNT_ID") IN
     /\ x.calls # <<>> =>
          x.calls[1].params.account =
             (IF supplied # Undefined THEN supplied ELSE configured)
     /\ (supplied = Undefined /\ configured = Undefined /\ x.pc # "idle")
          => /\ x.calls = <<>> /\ Completed(x)
             /\ \/ SaysNotInitialized(x)
                \/ x.response.result.text =
                     ErrorPrefix("meta_ads", x.request.name) \o NoAccountId.message
====
